---- MODULE Spec2Model ----
(***************************************************************************)
(* A model of PlaywrightWrapper (src/helper/wrapper/PlaywrightWrappers.ts): *)
(* the facade's operations as sequences of page-handle requests, the page  *)
(* handle as the environment they act on, and generateRandomValue as the   *)
(* loop the source runs.                                                    *)
(*                                                                          *)
(* Five specifications share the module, each leaving the others' state    *)
(* untouched:                                                               *)
(*   SpecRandom  generateRandomValue                                        *)
(*   SpecDialog  getTextAndAcceptAlert and the page's dialog events         *)
(*   SpecNav     navigateTo                                                 *)
(*   SpecPage    the locator operations, one caller, a changing page        *)
(*   SpecConc    the multi-step locator operations, two callers             *)
(***************************************************************************)
EXTENDS Integers, Sequences, FiniteSets, TLC

VARIABLES
    \* generateRandomValue
    genType, genLength, genI, randomValue, genPc,
    \* getTextAndAcceptAlert
    nCalls, alertText, returned, listeners, handled, nDialogs, acceptErrors,
    \* navigateTo
    navPc, navWait, navClick, navigation, navLink, navMissed, nNavCalls,
    \* locator operations
    elem, text, call, serialized

genVars  == <<genType, genLength, genI, randomValue, genPc>>
dlgVars  == <<nCalls, alertText, returned, listeners, handled, nDialogs, acceptErrors>>
navVars  == <<navPc, navWait, navClick, navigation, navLink, navMissed, nNavCalls>>
pageVars == <<elem, text, call, serialized>>
vars     == <<genVars, dlgVars, navVars, pageVars>>

----------------------------------------------------------------------------
(* Bounds *)

\* Largest length passed to generateRandomValue.
MaxLen == 2
\* Number of calls of getTextAndAcceptAlert.
MaxCalls == 3
\* Number of dialogs the page opens.
MaxDialogs == 3
\* Number of calls of navigateTo.
MaxNavCalls == 2

----------------------------------------------------------------------------
(* generateRandomValue(length, type)                                       *)

\* The values of `type` tried: the three the code recognises and two it does not.
Types == {"numeric", "alphanumeric", "characters", "hex", ""}

NumericChars == <<"0", "1", "2", "3", "4", "5", "6", "7", "8", "9">>

AlphanumericChars ==
    <<"A", "B", "C", "D", "E", "F", "G", "H", "I", "J", "K", "L", "M",
      "N", "O", "P", "Q", "R", "S", "T", "U", "V", "W", "X", "Y", "Z",
      "a", "b", "c", "d", "e", "f", "g", "h", "i", "j", "k", "l", "m",
      "n", "o", "p", "q", "r", "s", "t", "u", "v", "w", "x", "y", "z",
      "0", "1", "2", "3", "4", "5", "6", "7", "8", "9">>

SymbolChars ==
    <<"!", "@", "#", "$", "%", "^", "&", "*", "(", ")", "_", "-", "+", "=",
      "<", ">", "?">>

\* let characters = ''; if / else if / else if: an unrecognised type leaves
\* characters empty (a string is a sequence of one-character strings here).
Characters(type) ==
    IF type = "numeric" THEN NumericChars
    ELSE IF type = "alphanumeric" THEN AlphanumericChars
    ELSE IF type = "characters" THEN SymbolChars
    ELSE <<>>

\* characters[index]: undefined out of range, which += appends as "undefined".
charAtIndexing(s, index) ==
    IF 0 <= index /\ index < Len(s) THEN <<s[index + 1]>>
    ELSE <<"u", "n", "d", "e", "f", "i", "n", "e", "d">>

\* String.prototype.charAt with a 0-based index: the empty string out of range.
charAt(s, index) ==
    IF 0 <= index /\ index < Len(s) THEN <<s[index + 1]>> ELSE <<>>

\* Math.floor(Math.random() * characters.length) with Math.random() in [0, 1):
\* any of 0 .. length-1, and 0 when the length is 0.
RandomIndex(s) == IF Len(s) = 0 THEN {0} ELSE 0 .. (Len(s) - 1)

\* getRandomChar(characters), for each index the draw can give.
getRandomChar(s, index) == charAt(s, index)

LoopCondInclusive(i, length) == i <= length

\* for (...; i < length; ...)
LoopCond(i, length) == i < length

InitRandom ==
    /\ genType \in Types
    /\ genLength \in 0 .. MaxLen
    /\ genI = 0
    /\ randomValue = <<>>
    /\ genPc = "loop"

\* One iteration: randomValue += getRandomChar(characters); i++
GenAppend ==
    /\ genPc = "loop"
    /\ LoopCond(genI, genLength)
    /\ \E index \in RandomIndex(Characters(genType)) :
          randomValue' = randomValue \o getRandomChar(Characters(genType), index)
    /\ genI' = genI + 1
    /\ UNCHANGED <<genType, genLength, genPc>>

\* return randomValue
GenReturn ==
    /\ genPc = "loop"
    /\ ~LoopCond(genI, genLength)
    /\ genPc' = "returned"
    /\ UNCHANGED <<genType, genLength, genI, randomValue>>

NextRandom ==
    \/ GenAppend /\ UNCHANGED <<dlgVars, navVars, pageVars>>
    \/ GenReturn /\ UNCHANGED <<dlgVars, navVars, pageVars>>

IdleRandom ==
    /\ genType = ""
    /\ genLength = 0
    /\ genI = 0
    /\ randomValue = <<>>
    /\ genPc = "returned"

----------------------------------------------------------------------------
(* getTextAndAcceptAlert() and the page's 'dialog' event                   *)

\* The messages a dialog can carry.
Messages == {"Saved", "Delete?"}

IdleDialog ==
    /\ nCalls = 0
    /\ alertText = <<>>
    /\ returned = <<>>
    /\ listeners = {}
    /\ handled = <<>>
    /\ nDialogs = 0
    /\ acceptErrors = 0

\* The page emits 'dialog' to every registered listener, each of which runs
\* alertText = dialog.message() on its own call's variable and then
\* dialog.accept(); accept throws on a dialog that was already handled.
EmitDialog(message) ==
    /\ alertText' = [c \in 1 .. nCalls |->
                        IF c \in listeners THEN message ELSE alertText[c]]
    /\ handled' = [c \in 1 .. nCalls |->
                        IF c \in listeners THEN handled[c] + 1 ELSE handled[c]]
    /\ acceptErrors' = IF listeners = {} THEN acceptErrors
                       ELSE acceptErrors + Cardinality(listeners) - 1

\* The function as it would be if it awaited the dialog before returning.
GetTextAndAcceptAlertAwaited ==
    /\ nCalls < MaxCalls
    /\ nDialogs < MaxDialogs
    /\ \E message \in Messages :
          /\ alertText' = Append([c \in 1 .. nCalls |->
                                     IF c \in listeners THEN message
                                     ELSE alertText[c]], message)
          /\ returned' = Append(returned, message)
    /\ handled' = Append([c \in 1 .. nCalls |->
                             IF c \in listeners THEN handled[c] + 1
                             ELSE handled[c]], 1)
    /\ nCalls' = nCalls + 1
    /\ listeners' = listeners \cup {nCalls + 1}
    /\ nDialogs' = nDialogs + 1
    /\ acceptErrors' = acceptErrors + Cardinality(listeners)

\* let alertText = ''; this.page.on('dialog', listener); return alertText;
\* No await separates the three: the call is one step, and the value handed
\* to the caller is the string alertText holds at the return.
GetTextAndAcceptAlert ==
    /\ nCalls < MaxCalls
    /\ nCalls' = nCalls + 1
    /\ alertText' = Append(alertText, "")
    /\ handled' = Append(handled, 0)
    /\ listeners' = listeners \cup {nCalls + 1}
    /\ returned' = Append(returned, alertText'[nCalls + 1])
    /\ UNCHANGED <<nDialogs, acceptErrors>>

\* A dialog opens on the page.
DialogOpens ==
    /\ nDialogs < MaxDialogs
    /\ nDialogs' = nDialogs + 1
    /\ \E message \in Messages : EmitDialog(message)
    /\ UNCHANGED <<nCalls, returned, listeners>>

NextDialog ==
    \/ GetTextAndAcceptAlert /\ UNCHANGED <<genVars, navVars, pageVars>>
    \/ DialogOpens /\ UNCHANGED <<genVars, navVars, pageVars>>

----------------------------------------------------------------------------
(* navigateTo(link)                                                        *)

Links == {"a#next", "button#save"}

IdleNav ==
    /\ navPc = "idle"
    /\ navWait = "none"
    /\ navClick = "none"
    /\ navigation = "none"
    /\ navLink = "none"
    /\ navMissed = FALSE
    /\ nNavCalls = 0

\* Promise.race in place of Promise.all: the first fulfilment settles the call.
AnyFulfilled == navWait = "resolved" \/ navClick = "resolved"

\* Promise.all fulfils when every promise of the array has fulfilled.
AllFulfilled == navWait = "resolved" /\ navClick = "resolved"

\* Promise.all rejects as soon as one promise of the array rejects.
AnyRejected == navWait = "rejected" \/ navClick = "rejected"

\* The array [this.page.waitForNavigation(), this.page.click(link)] is built
\* before Promise.all is awaited: the wait is registered and the click is
\* requested in the same synchronous step.
NavigateTo(link) ==
    /\ navPc \in {"idle", "returned", "failed"}
    /\ nNavCalls < MaxNavCalls
    /\ nNavCalls' = nNavCalls + 1
    /\ navLink' = link
    /\ navWait' = "pending"
    /\ navClick' = "pending"
    /\ navPc' = "awaiting"
    /\ UNCHANGED <<navigation, navMissed>>

\* page.click(link) completes; the click may or may not start a navigation.
ClickResolves ==
    /\ navClick = "pending"
    /\ navClick' = "resolved"
    /\ \E starts \in BOOLEAN :
          navigation' = IF starts THEN "inflight" ELSE navigation
    /\ UNCHANGED <<navPc, navWait, navLink, navMissed, nNavCalls>>

\* page.click(link) fails (no such element, not actionable in time).
ClickRejects ==
    /\ navClick = "pending"
    /\ navClick' = "rejected"
    /\ UNCHANGED <<navPc, navWait, navigation, navLink, navMissed, nNavCalls>>

\* The page starts a navigation on its own (a script, an earlier action).
NavigationStarts ==
    /\ navigation = "none"
    /\ navigation' = "inflight"
    /\ UNCHANGED <<navPc, navWait, navClick, navLink, navMissed, nNavCalls>>

\* A navigation completes: a registered wait observes it, otherwise the
\* signal is gone.
NavigationCompletes ==
    /\ navigation = "inflight"
    /\ navigation' = "none"
    /\ IF navWait = "pending"
          THEN navWait' = "resolved" /\ UNCHANGED navMissed
          ELSE navMissed' = TRUE /\ UNCHANGED navWait
    /\ UNCHANGED <<navPc, navClick, navLink, nNavCalls>>

\* page.waitForNavigation() gives up after the page handle's default timeout.
NavigationWaitTimesOut ==
    /\ navWait = "pending"
    /\ navWait' = "rejected"
    /\ UNCHANGED <<navPc, navClick, navigation, navLink, navMissed, nNavCalls>>

\* await Promise.all([...]) fulfils: navigateTo returns.
NavigateToReturns ==
    /\ navPc = "awaiting"
    /\ AllFulfilled
    /\ navPc' = "returned"
    /\ UNCHANGED <<navWait, navClick, navigation, navLink, navMissed, nNavCalls>>

\* await Promise.all([...]) rejects: navigateTo throws.
NavigateToThrows ==
    /\ navPc = "awaiting"
    /\ AnyRejected
    /\ navPc' = "failed"
    /\ UNCHANGED <<navWait, navClick, navigation, navLink, navMissed, nNavCalls>>

NextNav ==
    \/ (\E link \in Links : NavigateTo(link)) /\ UNCHANGED <<genVars, dlgVars, pageVars>>
    \/ ClickResolves /\ UNCHANGED <<genVars, dlgVars, pageVars>>
    \/ ClickRejects /\ UNCHANGED <<genVars, dlgVars, pageVars>>
    \/ NavigationStarts /\ UNCHANGED <<genVars, dlgVars, pageVars>>
    \/ NavigationCompletes /\ UNCHANGED <<genVars, dlgVars, pageVars>>
    \/ NavigationWaitTimesOut /\ UNCHANGED <<genVars, dlgVars, pageVars>>
    \/ NavigateToReturns /\ UNCHANGED <<genVars, dlgVars, pageVars>>
    \/ NavigateToThrows /\ UNCHANGED <<genVars, dlgVars, pageVars>>

----------------------------------------------------------------------------
(* The locator operations, and the page they act on                        *)

\* The callers that hold the facade.
Callers == {1, 2}

\* The selectors tried; acceptAlert and dismissAlert name theirs themselves.
Locators == {"text=OK", "text=Cancel"}

\* What textContent() gives for an element without text.
NullText == "<null>"
Texts == {NullText, "", "OK"}

\* What a selector matches on the page: nothing, one hidden element, one
\* visible element, or more than one element (a strict-mode violation for
\* every locator request).
Matches == {"absent", "hidden", "visible", "many"}

\* this.page.waitForTimeout(500)
GraceMs == 500

Fresh(op, pc, loc, loc2) ==
    [op |-> op, pc |-> pc, loc |-> loc, loc2 |-> loc2, slept |-> 0,
     waited |-> FALSE, visible |-> "unset", clicked |-> FALSE,
     pressed |-> "none", text1 |-> "unread", text2 |-> "unread",
     result |-> "none", seen |-> "none", started |-> FALSE, gapBy |-> "none"]

IdleCall == Fresh("none", "idle", "none", "none")

IdlePage ==
    /\ elem = [l \in Locators |-> "absent"]
    /\ text = [l \in Locators |-> ""]
    /\ call = [p \in Callers |-> IdleCall]
    /\ serialized = TRUE

\* The operation has no page-handle request left to make.
Settled(p) == call[p].pc \in {"idle", "returned", "failed"}

\* waitAndClick without the await on element.click(): its promise resolves
\* while the click is still to come.
ReturnedBeforeClick(p) ==
    \/ Settled(p)
    \/ call[p].op = "waitAndClick" /\ call[p].pc = "click"

\* The promise of the call has settled: every method awaits each of its
\* page-handle requests, the last one included, before it returns.
Returned(p) == Settled(p)

\* A caller starts an operation. A caller that serializes its calls awaits
\* each before it makes the next.
Start(p, r) ==
    /\ Settled(p)
    /\ serialized => \A q \in Callers \ {p} : Returned(q)
    /\ call' = [call EXCEPT ![p] = r]
    /\ UNCHANGED <<elem, text, serialized>>

\* Caller p's operation makes the page-handle request `name` and moves to r.
\* Every other operation that has made a request and has more to make has
\* this request fall between its own.
Request(p, name, r) ==
    /\ call' = [q \in Callers |->
                  IF q = p THEN [r EXCEPT !.started = TRUE]
                  ELSE IF ~Settled(q) /\ call[q].started
                          THEN [call[q] EXCEPT !.gapBy = name]
                          ELSE call[q]]
    /\ UNCHANGED <<elem, text, serialized>>

\* The page changes under the facade: an element appears, hides, doubles.
ElementChanges(ls) ==
    /\ \E l \in ls, m \in Matches :
          /\ elem[l] # m
          /\ elem' = [elem EXCEPT ![l] = m]
    /\ UNCHANGED <<text, call, serialized>>

\* The page changes under the facade: an element's text changes.
TextChanges(ls) ==
    /\ \E l \in ls, t \in Texts :
          /\ text[l] # t
          /\ text' = [text EXCEPT ![l] = t]
    /\ UNCHANGED <<elem, call, serialized>>

----------------------------------------------------------------------------
(* isElementAvailable(locator)                                             *)

CallIsElementAvailable(p, locator) ==
    Start(p, Fresh("isElementAvailable", "isVisible", locator, "none"))

\* The method as it would be if it waited for the element as waitAndClick
\* does: it blocks until the element is visible and fails otherwise.
IsElementAvailableWaiting(p) ==
    /\ call[p].op = "isElementAvailable"
    /\ call[p].pc = "isVisible"
    /\ LET l == call[p].loc IN
       Request(p, "waitFor",
          IF elem[l] = "visible"
             THEN [call[p] EXCEPT !.pc = "returned", !.seen = elem[l],
                                  !.waited = TRUE, !.result = "true"]
             ELSE [call[p] EXCEPT !.pc = "failed", !.seen = elem[l]])

\* return await element.isVisible(): one query of the page as it is now.
\* No match is "not visible"; several matches are a strict-mode error.
IsElementAvailable(p) ==
    /\ call[p].op = "isElementAvailable"
    /\ call[p].pc = "isVisible"
    /\ LET l == call[p].loc IN
       Request(p, "isVisible",
          IF elem[l] = "many"
             THEN [call[p] EXCEPT !.pc = "failed", !.seen = elem[l]]
             ELSE [call[p] EXCEPT !.pc = "returned", !.seen = elem[l],
                      !.visible = IF elem[l] = "visible" THEN "yes" ELSE "no",
                      !.result = IF elem[l] = "visible" THEN "true" ELSE "false"])

----------------------------------------------------------------------------
(* getText(locator) and compareText(locator1, locator2)                    *)

\* element.textContent() waits for one element to be attached.
CanRead(l) == elem[l] \in {"hidden", "visible"}

\* return await element.textContent()
getText(l) == text[l]

\* A comparison that takes an element without text for the empty string.
LooseEquals(t1, t2) ==
    (IF t1 = NullText THEN "" ELSE t1) = (IF t2 = NullText THEN "" ELSE t2)

\* text1 === text2
StrictEquals(t1, t2) == t1 = t2

CallCompareText(p, locator1, locator2) ==
    Start(p, Fresh("compareText", "getText1", locator1, locator2))

\* const text1 = await this.getText(locator1)
CompareTextRead1(p) ==
    /\ call[p].op = "compareText"
    /\ call[p].pc = "getText1"
    /\ CanRead(call[p].loc)
    /\ Request(p, "textContent",
          [call[p] EXCEPT !.pc = "getText2", !.text1 = getText(call[p].loc)])

\* const text2 = await this.getText(locator2); return text1 === text2
CompareTextRead2(p) ==
    /\ call[p].op = "compareText"
    /\ call[p].pc = "getText2"
    /\ CanRead(call[p].loc2)
    /\ LET t2 == getText(call[p].loc2) IN
       Request(p, "textContent",
          [call[p] EXCEPT !.pc = "returned", !.text2 = t2,
              !.result = IF StrictEquals(call[p].text1, t2) THEN "true" ELSE "false"])

\* Either textContent() times out or meets several elements: getText throws
\* and compareText with it.
CompareTextFails(p) ==
    /\ call[p].op = "compareText"
    /\ \/ call[p].pc = "getText1" /\ ~CanRead(call[p].loc)
       \/ call[p].pc = "getText2" /\ ~CanRead(call[p].loc2)
    /\ Request(p, "textContent", [call[p] EXCEPT !.pc = "failed"])

----------------------------------------------------------------------------
(* waitAndClick(locator)                                                   *)

CallWaitAndClick(p, locator) ==
    Start(p, Fresh("waitAndClick", "waitFor", locator, "none"))

\* waitAndClick without the await on element.waitFor(): the click is
\* requested while the wait is still pending.
WaitForNotAwaited(p) == call[p].pc \in {"waitFor", "click"}

\* element.click() is reached only once `await element.waitFor(...)` is over.
WaitForAwaited(p) == call[p].pc = "click"

\* await element.waitFor({ state: "visible" }) resolves.
WaitAndClickVisible(p) ==
    /\ call[p].op = "waitAndClick"
    /\ call[p].pc = "waitFor"
    /\ elem[call[p].loc] = "visible"
    /\ Request(p, "waitFor", [call[p] EXCEPT !.pc = "click", !.waited = TRUE])

\* The wait times out, or meets several elements: waitAndClick throws there.
WaitAndClickWaitFails(p) ==
    /\ call[p].op = "waitAndClick"
    /\ call[p].pc = "waitFor"
    /\ elem[call[p].loc] # "visible"
    /\ Request(p, "waitFor", [call[p] EXCEPT !.pc = "failed"])

\* await element.click(): the click is dispatched on the visible element.
WaitAndClickClick(p) ==
    /\ call[p].op = "waitAndClick"
    /\ WaitForAwaited(p)
    /\ elem[call[p].loc] = "visible"
    /\ Request(p, "click", [call[p] EXCEPT !.pc = "returned", !.clicked = TRUE])

\* The element is gone again by the click, which times out.
WaitAndClickClickFails(p) ==
    /\ call[p].op = "waitAndClick"
    /\ call[p].pc = "click"
    /\ elem[call[p].loc] # "visible"
    /\ Request(p, "click", [call[p] EXCEPT !.pc = "failed"])

----------------------------------------------------------------------------
(* acceptAlert() and dismissAlert()                                        *)

AlertOps == {"acceptAlert", "dismissAlert"}

\* this.page.locator('text=OK') / this.page.locator('text=Cancel')
AlertLocator(op) == IF op = "acceptAlert" THEN "text=OK" ELSE "text=Cancel"

\* this.page.keyboard.press('Enter') / this.page.keyboard.press('Escape')
AlertKey(op) == IF op = "acceptAlert" THEN "Enter" ELSE "Escape"

CallAlert(p, op) ==
    Start(p, Fresh(op, "waitForTimeout", AlertLocator(op), "none"))

\* The condition negated.
AlertBranchNegated(visible) == IF visible THEN "press" ELSE "click"

\* if (await alert.isVisible()) { click } else { press }
AlertBranch(visible) == IF visible THEN "click" ELSE "press"

\* await this.page.waitForTimeout(500)
AlertGrace(p) ==
    /\ call[p].op \in AlertOps
    /\ call[p].pc = "waitForTimeout"
    /\ Request(p, "waitForTimeout",
          [call[p] EXCEPT !.pc = "isVisible", !.slept = GraceMs])

\* await alert.isVisible(), and the branch taken on its answer.
AlertIsVisible(p) ==
    /\ call[p].op \in AlertOps
    /\ call[p].pc = "isVisible"
    /\ LET l == call[p].loc IN
       Request(p, "isVisible",
          IF elem[l] = "many"
             THEN [call[p] EXCEPT !.pc = "failed", !.seen = elem[l]]
             ELSE [call[p] EXCEPT !.pc = AlertBranch(elem[l] = "visible"),
                      !.seen = elem[l],
                      !.visible = IF elem[l] = "visible" THEN "yes" ELSE "no"])

\* await alert.click()
AlertClick(p) ==
    /\ call[p].op \in AlertOps
    /\ call[p].pc = "click"
    /\ elem[call[p].loc] = "visible"
    /\ Request(p, "click", [call[p] EXCEPT !.pc = "returned", !.clicked = TRUE])

\* The element is not (or no longer) there to click: the click times out.
AlertClickFails(p) ==
    /\ call[p].op \in AlertOps
    /\ call[p].pc = "click"
    /\ elem[call[p].loc] # "visible"
    /\ Request(p, "click", [call[p] EXCEPT !.pc = "failed"])

\* await this.page.keyboard.press(key)
AlertPress(p) ==
    /\ call[p].op \in AlertOps
    /\ call[p].pc = "press"
    /\ Request(p, "press",
          [call[p] EXCEPT !.pc = "returned", !.pressed = AlertKey(call[p].op)])

----------------------------------------------------------------------------
(* selectAutoSuggestion(locator, suggestionText)                           *)

Suggestions == {"OK", "Cancel"}

\* `text=${suggestionText}`
TextSelector(suggestionText) ==
    IF suggestionText = "OK" THEN "text=OK" ELSE "text=Cancel"

CallSelectAutoSuggestion(p, locator, suggestionText) ==
    Start(p, Fresh("selectAutoSuggestion", "type", locator,
                   TextSelector(suggestionText)))

\* await element.type(suggestionText)
SelectAutoSuggestionType(p) ==
    /\ call[p].op = "selectAutoSuggestion"
    /\ call[p].pc = "type"
    /\ elem[call[p].loc] = "visible"
    /\ Request(p, "type", [call[p] EXCEPT !.pc = "waitForSelector"])

\* await this.page.waitForSelector(`text=${suggestionText}`): the first
\* visible match will do.
SelectAutoSuggestionWait(p) ==
    /\ call[p].op = "selectAutoSuggestion"
    /\ call[p].pc = "waitForSelector"
    /\ elem[call[p].loc2] \in {"visible", "many"}
    /\ Request(p, "waitForSelector",
          [call[p] EXCEPT !.pc = "press", !.waited = TRUE])

\* await element.press('Enter')
SelectAutoSuggestionPress(p) ==
    /\ call[p].op = "selectAutoSuggestion"
    /\ call[p].pc = "press"
    /\ elem[call[p].loc] \in {"hidden", "visible"}
    /\ Request(p, "press",
          [call[p] EXCEPT !.pc = "returned", !.pressed = "Enter"])

\* One of the three requests times out or meets several elements.
SelectAutoSuggestionFails(p) ==
    /\ call[p].op = "selectAutoSuggestion"
    /\ \/ call[p].pc = "type" /\ elem[call[p].loc] # "visible"
       \/ call[p].pc = "waitForSelector"
            /\ elem[call[p].loc2] \notin {"visible", "many"}
       \/ call[p].pc = "press" /\ elem[call[p].loc] \notin {"hidden", "visible"}
    /\ Request(p, call[p].pc, [call[p] EXCEPT !.pc = "failed"])

----------------------------------------------------------------------------
(* The specifications                                                      *)

\* One caller, every operation, every selector.
InitPage == IdlePage

NextPage ==
    \/ (\E l \in Locators : CallIsElementAvailable(1, l)) /\ UNCHANGED <<genVars, dlgVars, navVars>>
    \/ IsElementAvailable(1) /\ UNCHANGED <<genVars, dlgVars, navVars>>
    \/ (\E l1, l2 \in Locators : CallCompareText(1, l1, l2)) /\ UNCHANGED <<genVars, dlgVars, navVars>>
    \/ CompareTextRead1(1) /\ UNCHANGED <<genVars, dlgVars, navVars>>
    \/ CompareTextRead2(1) /\ UNCHANGED <<genVars, dlgVars, navVars>>
    \/ CompareTextFails(1) /\ UNCHANGED <<genVars, dlgVars, navVars>>
    \/ (\E l \in Locators : CallWaitAndClick(1, l)) /\ UNCHANGED <<genVars, dlgVars, navVars>>
    \/ WaitAndClickVisible(1) /\ UNCHANGED <<genVars, dlgVars, navVars>>
    \/ WaitAndClickWaitFails(1) /\ UNCHANGED <<genVars, dlgVars, navVars>>
    \/ WaitAndClickClick(1) /\ UNCHANGED <<genVars, dlgVars, navVars>>
    \/ WaitAndClickClickFails(1) /\ UNCHANGED <<genVars, dlgVars, navVars>>
    \/ (\E op \in AlertOps : CallAlert(1, op)) /\ UNCHANGED <<genVars, dlgVars, navVars>>
    \/ AlertGrace(1) /\ UNCHANGED <<genVars, dlgVars, navVars>>
    \/ AlertIsVisible(1) /\ UNCHANGED <<genVars, dlgVars, navVars>>
    \/ AlertClick(1) /\ UNCHANGED <<genVars, dlgVars, navVars>>
    \/ AlertClickFails(1) /\ UNCHANGED <<genVars, dlgVars, navVars>>
    \/ AlertPress(1) /\ UNCHANGED <<genVars, dlgVars, navVars>>
    \/ (\E l \in Locators, t \in Suggestions : CallSelectAutoSuggestion(1, l, t)) /\ UNCHANGED <<genVars, dlgVars, navVars>>
    \/ SelectAutoSuggestionType(1) /\ UNCHANGED <<genVars, dlgVars, navVars>>
    \/ SelectAutoSuggestionWait(1) /\ UNCHANGED <<genVars, dlgVars, navVars>>
    \/ SelectAutoSuggestionPress(1) /\ UNCHANGED <<genVars, dlgVars, navVars>>
    \/ SelectAutoSuggestionFails(1) /\ UNCHANGED <<genVars, dlgVars, navVars>>
    \/ ElementChanges(Locators) /\ UNCHANGED <<genVars, dlgVars, navVars>>
    \/ TextChanges(Locators) /\ UNCHANGED <<genVars, dlgVars, navVars>>

\* Two callers on one facade, serializing their calls or not, with the
\* multi-step operations on the selector acceptAlert uses.
ConcLocators == {"text=OK"}

InitConc ==
    /\ elem = [l \in Locators |-> "absent"]
    /\ text = [l \in Locators |-> ""]
    /\ call = [p \in Callers |-> IdleCall]
    /\ serialized \in BOOLEAN

NextConc ==
    \/ (\E p \in Callers, l1, l2 \in ConcLocators : CallCompareText(p, l1, l2)) /\ UNCHANGED <<genVars, dlgVars, navVars>>
    \/ (\E p \in Callers : CompareTextRead1(p)) /\ UNCHANGED <<genVars, dlgVars, navVars>>
    \/ (\E p \in Callers : CompareTextRead2(p)) /\ UNCHANGED <<genVars, dlgVars, navVars>>
    \/ (\E p \in Callers : CompareTextFails(p)) /\ UNCHANGED <<genVars, dlgVars, navVars>>
    \/ (\E p \in Callers, l \in ConcLocators : CallWaitAndClick(p, l)) /\ UNCHANGED <<genVars, dlgVars, navVars>>
    \/ (\E p \in Callers : WaitAndClickVisible(p)) /\ UNCHANGED <<genVars, dlgVars, navVars>>
    \/ (\E p \in Callers : WaitAndClickWaitFails(p)) /\ UNCHANGED <<genVars, dlgVars, navVars>>
    \/ (\E p \in Callers : WaitAndClickClick(p)) /\ UNCHANGED <<genVars, dlgVars, navVars>>
    \/ (\E p \in Callers : WaitAndClickClickFails(p)) /\ UNCHANGED <<genVars, dlgVars, navVars>>
    \/ (\E p \in Callers : CallAlert(p, "acceptAlert")) /\ UNCHANGED <<genVars, dlgVars, navVars>>
    \/ (\E p \in Callers : AlertGrace(p)) /\ UNCHANGED <<genVars, dlgVars, navVars>>
    \/ (\E p \in Callers : AlertIsVisible(p)) /\ UNCHANGED <<genVars, dlgVars, navVars>>
    \/ (\E p \in Callers : AlertClick(p)) /\ UNCHANGED <<genVars, dlgVars, navVars>>
    \/ (\E p \in Callers : AlertClickFails(p)) /\ UNCHANGED <<genVars, dlgVars, navVars>>
    \/ (\E p \in Callers : AlertPress(p)) /\ UNCHANGED <<genVars, dlgVars, navVars>>
    \/ (\E p \in Callers, l \in ConcLocators : CallSelectAutoSuggestion(p, l, "OK")) /\ UNCHANGED <<genVars, dlgVars, navVars>>
    \/ (\E p \in Callers : SelectAutoSuggestionType(p)) /\ UNCHANGED <<genVars, dlgVars, navVars>>
    \/ (\E p \in Callers : SelectAutoSuggestionWait(p)) /\ UNCHANGED <<genVars, dlgVars, navVars>>
    \/ (\E p \in Callers : SelectAutoSuggestionPress(p)) /\ UNCHANGED <<genVars, dlgVars, navVars>>
    \/ (\E p \in Callers : SelectAutoSuggestionFails(p)) /\ UNCHANGED <<genVars, dlgVars, navVars>>
    \/ ElementChanges(ConcLocators) /\ UNCHANGED <<genVars, dlgVars, navVars>>
    \/ TextChanges(ConcLocators) /\ UNCHANGED <<genVars, dlgVars, navVars>>

InitSpecRandom == InitRandom /\ IdleDialog /\ IdleNav /\ IdlePage
InitSpecDialog == IdleRandom /\ IdleDialog /\ IdleNav /\ IdlePage
InitSpecNav    == IdleRandom /\ IdleDialog /\ IdleNav /\ IdlePage
InitSpecPage   == IdleRandom /\ IdleDialog /\ IdleNav /\ InitPage
InitSpecConc   == IdleRandom /\ IdleDialog /\ IdleNav /\ InitConc

SpecRandom == InitSpecRandom /\ [][NextRandom]_vars
SpecDialog == InitSpecDialog /\ [][NextDialog]_vars
SpecNav    == InitSpecNav /\ [][NextNav]_vars
SpecPage   == InitSpecPage /\ [][NextPage]_vars
SpecConc   == InitSpecConc /\ [][NextConc]_vars

----------------------------------------------------------------------------
(* Properties                                                              *)

RecognizedTypes == {"numeric", "alphanumeric", "characters"}

DigitSet == {"0", "1", "2", "3", "4", "5", "6", "7", "8", "9"}

UpperSet == {"A", "B", "C", "D", "E", "F", "G", "H", "I", "J", "K", "L", "M",
             "N", "O", "P", "Q", "R", "S", "T", "U", "V", "W", "X", "Y", "Z"}

LowerSet == {"a", "b", "c", "d", "e", "f", "g", "h", "i", "j", "k", "l", "m",
             "n", "o", "p", "q", "r", "s", "t", "u", "v", "w", "x", "y", "z"}

SymbolSet == {"!", "@", "#", "$", "%", "^", "&", "*", "(", ")", "_", "-", "+",
              "=", "<", ">", "?"}

AllowedChars(type) ==
    IF type = "numeric" THEN DigitSet
    ELSE IF type = "alphanumeric" THEN UpperSet \cup LowerSet \cup DigitSet
    ELSE SymbolSet

\* C1: for a recognised type, generateRandomValue(n, type) returns exactly n
\* characters, each of the type's character set, whatever indices are drawn.
C1_LengthAndCharset ==
    (genPc = "returned" /\ genType \in RecognizedTypes) =>
        /\ Len(randomValue) = genLength
        /\ \A i \in 1 .. Len(randomValue) : randomValue[i] \in AllowedChars(genType)

\* A returned value of two different symbols.
C1_Witness ==
    /\ genPc = "returned"
    /\ genType = "characters"
    /\ genLength >= 2
    /\ Len(randomValue) = genLength
    /\ randomValue[1] = "?"
    /\ randomValue[2] = "!"

C3_OneShotListener ==
    \A c \in 1 .. nCalls :
        /\ handled[c] <= 1
        /\ handled[c] = 1 => c \notin listeners

\* C4: isElementAvailable on a selector that matches nothing returns false,
\* never fails, makes no wait, and its one query can always be answered.
C4_AbsentIsFalse ==
    \A p \in Callers :
        call[p].op = "isElementAvailable" =>
            /\ call[p].seen = "absent" =>
                  call[p].pc = "returned" /\ call[p].result = "false"
            /\ ~call[p].waited
            /\ call[p].pc = "isVisible" => ENABLED IsElementAvailable(p)

\* isElementAvailable has answered false for a selector matching nothing.
C4_Witness ==
    /\ call[1].op = "isElementAvailable"
    /\ call[1].pc = "returned"
    /\ call[1].seen = "absent"
    /\ call[1].result = "false"

\* C5: compareText returns true exactly when the two values getText gave
\* are the same value, and false when one is empty and the other is not.
C5_ExactEquality ==
    \A p \in Callers :
        (call[p].op = "compareText" /\ call[p].pc = "returned") =>
            /\ call[p].text1 \in Texts
            /\ call[p].text2 \in Texts
            /\ call[p].result \in {"true", "false"}
            /\ call[p].result = "true" <=> call[p].text1 = call[p].text2
            /\ (call[p].text1 = "") # (call[p].text2 = "") => call[p].result = "false"

\* compareText has compared an element without text with an empty one.
C5_Witness ==
    /\ call[1].op = "compareText"
    /\ call[1].pc = "returned"
    /\ call[1].text1 = NullText
    /\ call[1].text2 = ""
    /\ call[1].result = "false"

\* C6: waitAndClick dispatches its click only after its visibility wait has
\* succeeded; a call whose wait failed has dispatched no click.
C6_ClickAfterWait ==
    \A p \in Callers :
        call[p].op = "waitAndClick" =>
            /\ call[p].clicked => call[p].waited
            /\ call[p].pc = "click" => call[p].waited
            /\ (call[p].pc = "failed" /\ ~call[p].waited) => ~call[p].clicked

\* A waitAndClick has clicked after its wait, with another caller's request
\* in between.
C6_Witness ==
    \E p \in Callers :
        /\ call[p].op = "waitAndClick"
        /\ call[p].pc = "returned"
        /\ call[p].waited
        /\ call[p].clicked
        /\ call[p].gapBy # "none"

\* C7: acceptAlert and dismissAlert look for their element only after the
\* 500 ms wait, and then click it if and only if it was reported visible and
\* press their key otherwise: never both, and one of the two in a call that
\* returns.
C7_OneAlertAction ==
    \A p \in Callers :
        call[p].op \in AlertOps =>
            /\ call[p].loc = AlertLocator(call[p].op)
            /\ call[p].seen # "none" => call[p].slept = GraceMs
            /\ ~(call[p].clicked /\ call[p].pressed # "none")
            /\ call[p].clicked => call[p].visible = "yes"
            /\ call[p].pressed # "none" =>
                  call[p].visible = "no" /\ call[p].pressed = AlertKey(call[p].op)
            /\ call[p].pc = "returned" =>
                  \/ call[p].visible = "yes" /\ call[p].clicked
                  \/ call[p].visible = "no" /\ call[p].pressed # "none"

\* dismissAlert found no visible Cancel element and pressed Escape.
C7_Witness ==
    /\ call[1].op = "dismissAlert"
    /\ call[1].pc = "returned"
    /\ call[1].slept = GraceMs
    /\ call[1].visible = "no"
    /\ call[1].pressed = "Escape"
    /\ ~call[1].clicked

\* C8: navigateTo has its navigation wait and its click both started as soon
\* as it is called, and it has returned only if both have completed: with
\* the navigation not observed by the wait it has not returned.
C8_ReturnsAfterBoth ==
    /\ navPc # "idle" => navWait # "none" /\ navClick # "none"
    /\ navPc = "returned" => navWait = "resolved" /\ navClick = "resolved"

\* A navigation ended before the wait was registered; the click has
\* completed, the wait is still pending and the call has not returned.
C8_Witness ==
    /\ navMissed
    /\ navPc = "awaiting"
    /\ navClick = "resolved"
    /\ navWait = "pending"
    /\ navigation = "none"

\* C9: generateRandomValue returns the empty string for length 0 and for a
\* type it does not recognise, whatever the length.
C9_EmptyResult ==
    (genPc = "returned" /\ (genLength = 0 \/ genType \notin RecognizedTypes)) =>
        randomValue = <<>>

\* An unrecognised type went through the loop twice and returned ''.
C9_Witness ==
    /\ genPc = "returned"
    /\ genType = "hex"
    /\ genLength >= 2
    /\ genI = genLength
    /\ randomValue = <<>>

\* C10: with a caller that serializes its calls no request of one operation
\* falls between the requests of another; without, it can.
C10_SerializedContiguous ==
    serialized => \A p \in Callers : call[p].gapBy = "none"

\* Unserialized: another call's click fell between a waitAndClick's wait and
\* its click.
C10_Witness ==
    /\ ~serialized
    /\ \E p \in Callers :
          /\ call[p].op = "waitAndClick"
          /\ call[p].pc = "click"
          /\ call[p].gapBy = "click"

====
